---- MODULE Spec2Model ----
(***************************************************************************)
(* Trust receipts of packages/trust-receipts-python (sonate): receipts     *)
(* are built, hashed, signed, stored, altered by whoever holds them, and   *)
(* verified singly or as a chain by one TrustReceipts orchestrator.        *)
(*                                                                         *)
(* Python values are tagged tuples.  None is the empty tuple, a str s is   *)
(* <<"str", s>>, a number <<"num", n>> (scores in hundredths), a dict      *)
(* <<"dict", pairs>> with its <<key, value>> pairs in insertion order.  A  *)
(* call that raises returns [raised |-> TRUE, ...].                        *)
(* SHA-256 and Ed25519 are taken as ideal: a digest names the text it was  *)
(* computed from, a signature names the seed and the message it was made   *)
(* with.                                                                   *)
(***************************************************************************)
EXTENDS Integers, Sequences, FiniteSets, TLC

\* ------------------------------------------------------------------ bounds

\* Receipts the caller holds at most.
MaxReceipts == 3
\* Alterations (tampering, re-signing) of held receipts at most.
MaxEdits == 1
\* Longest list handed to verify_chain.
MaxChain == 3

\* ------------------------------------------------------------------ values

None == <<>>
Str(s) == <<"str", s>>
Num(n) == <<"num", n>>
Dict(pairs) == <<"dict", pairs>>
List(items) == <<"list", items>>
EmptyDict == Dict(<<>>)

\* Python's "x or None" and "x or {}": None, "" and {} are falsy.
Falsy(v) == v = None \/ v = Str("") \/ v = EmptyDict \/ v = List(<<>>)
OrNone(v) == IF Falsy(v) THEN None ELSE v
OrEmptyDict(v) == IF Falsy(v) THEN EmptyDict ELSE v

\* Key material as the caller writes it: two well-formed 32-byte seeds, a hex
\* string of the wrong length, and a string that is not hex.
PrivateKeys == {"k1", "k2"}
BadLenKey == "badlen"
NonHexKey == "nonhex"
PublicOf(k) == CASE k = "k1" -> "pk1" [] k = "k2" -> "pk2" [] OTHER -> "pk0"
PublicKeys == {"pk1", "pk2"}

Unsigned == <<>>
NonHexSig == <<"nonhex">>
BadLenSig == <<"badlen">>

Ok(v) == [raised |-> FALSE, value |-> v]
Raise(v) == [raised |-> TRUE, value |-> v]

\* ------------------------------------------------------------------ crypto.py

\* The place of every dict key of the model in the order of the keys' raw bytes.
KeyRank ==
    [agent_id |-> 1, choices |-> 2, clarity |-> 3, content |-> 4, created_ms |-> 5,
     derived |-> 6, message |-> 7, metadata |-> 8, model |-> 9, name |-> 10,
     overall |-> 11, prev_receipt_hash |-> 12, prompt_content |-> 13,
     prompt_hash |-> 14, response_content |-> 15, response_hash |-> 16,
     revision |-> 17, role |-> 18, scores |-> 19, seed |-> 20, session_id |-> 21,
     text |-> 22, timestamp |-> 23, ts_ms |-> 24, turns |-> 25, version |-> 26]

RECURSIVE InsertMember(_, _)
InsertMember(sorted, p) ==
    IF sorted = <<>> THEN <<p>>
    ELSE IF KeyRank[p[1]] < KeyRank[sorted[1][1]] THEN <<p>> \o sorted
    ELSE <<sorted[1]>> \o InsertMember(Tail(sorted), p)

\* canonicalize_json (RFC 8785): the members of every dict, at any depth, in
\* the order of their keys; every other value as it stands.
RECURSIVE canonicalize_json(_)
RECURSIVE CanonicalMembers(_, _)
CanonicalMembers(pairs, n) ==
    IF n = 0 THEN <<>>
    ELSE InsertMember(CanonicalMembers(pairs, n - 1),
                      <<pairs[n][1], canonicalize_json(pairs[n][2])>>)

canonicalize_json(obj) ==
    IF obj = None THEN obj
    ELSE IF obj[1] = "dict" THEN Dict(CanonicalMembers(obj[2], Len(obj[2])))
    ELSE IF obj[1] = "list"
         THEN List([i \in 1..Len(obj[2]) |-> canonicalize_json(obj[2][i])])
    ELSE obj

sha256(data) == <<"sha256", data>>

\* canonicalize_and_hash as it would be over json.dumps, keys as inserted.
canonicalize_and_hash_AsInserted(obj) == sha256(obj)

canonicalize_and_hash(obj) == sha256(canonicalize_json(obj))

get_public_key(private_key) ==
    IF private_key \in PrivateKeys THEN Ok(PublicOf(private_key)) ELSE Raise("")

sign(message, private_key) ==
    IF private_key \in PrivateKeys
    THEN Ok(<<"ed25519", private_key, message>>)
    ELSE Raise(Unsigned)

\* verify as it would be if only the signer were checked, not the message.
verify_KeyOnly(signature, message, public_key) ==
    IF signature = NonHexSig \/ public_key = NonHexKey THEN Raise(FALSE)
    ELSE Ok(/\ Len(signature) = 3
            /\ signature[1] = "ed25519"
            /\ public_key = PublicOf(signature[2]))

\* bytes.fromhex of the signature and of a str key stand before the try.
verify(signature, message, public_key) ==
    IF signature = NonHexSig \/ public_key = NonHexKey THEN Raise(FALSE)
    ELSE Ok(/\ Len(signature) = 3
            /\ signature[1] = "ed25519"
            /\ public_key = PublicOf(signature[2])
            /\ message = signature[3])

hex_to_bytes(hex_string) ==
    IF hex_string = NonHexKey THEN Raise(hex_string) ELSE Ok(hex_string)

\* ------------------------------------------------------------------ trust_receipt.py

VERSION == Str("1.0")

_hash_content(content) == canonicalize_and_hash(content)

\* _compute_receipt_hash as it would be with the content fields in the
\* payload.
_compute_receipt_hash_WithContent(r) ==
    canonicalize_and_hash(Dict(
        << <<"version", r.version>>,
           <<"timestamp", r.timestamp>>,
           <<"session_id", r.session_id>>,
           <<"agent_id", r.agent_id>>,
           <<"prompt_hash", r.prompt_hash>>,
           <<"response_hash", r.response_hash>>,
           <<"scores", r.scores>>,
           <<"prev_receipt_hash", r.prev_receipt_hash>>,
           <<"metadata", r.metadata>>,
           <<"prompt_content", r.prompt_content>>,
           <<"response_content", r.response_content>> >>))

_compute_receipt_hash(r) ==
    canonicalize_and_hash(Dict(
        << <<"version", r.version>>,
           <<"timestamp", r.timestamp>>,
           <<"session_id", r.session_id>>,
           <<"agent_id", r.agent_id>>,
           <<"prompt_hash", r.prompt_hash>>,
           <<"response_hash", r.response_hash>>,
           <<"scores", r.scores>>,
           <<"prev_receipt_hash", r.prev_receipt_hash>>,
           <<"metadata", r.metadata>> >>))

\* TrustReceipt.__init__ at the wall-clock instant now, up to the content
\* fields (lines 60-75).
Fields(data, now) ==
    [version |-> VERSION,
     timestamp |-> now,
     session_id |-> data.session_id,
     agent_id |-> OrNone(data.agent_id),
     prompt_hash |-> _hash_content(data.prompt),
     response_hash |-> _hash_content(data.response),
     scores |-> data.scores,
     prev_receipt_hash |-> OrNone(data.prev_receipt_hash),
     metadata |-> data.metadata,
     prompt_content |-> IF data.include_content THEN data.prompt ELSE None,
     response_content |-> IF data.include_content THEN data.response ELSE None]

WithHashAndSignature(fields, receipt_hash, signature) ==
    [f \in DOMAIN fields \cup {"receipt_hash", "signature"} |->
        IF f = "receipt_hash" THEN receipt_hash
        ELSE IF f = "signature" THEN signature
        ELSE fields[f]]

\* TrustReceipt.__init__: the fields, their hash, no signature.
TrustReceipt(data, now) ==
    LET fields == Fields(data, now)
    IN  WithHashAndSignature(fields, _compute_receipt_hash(fields), Unsigned)

\* TrustReceipt.sign as it would be if it hashed the receipt again, the new
\* signature included, after signing.
TrustReceipt_sign_Rehashed(r, private_key) ==
    LET s == sign(r.receipt_hash, private_key)
    IN  IF s.raised THEN Raise(r)
        ELSE Ok([r EXCEPT !.signature = s.value,
                          !.receipt_hash = canonicalize_and_hash(
                              List(<<_compute_receipt_hash(r), Str("signed")>>))])

\* TrustReceipt.sign as it would be if it cleared the signature before it
\* called crypto.sign.
TrustReceipt_sign_ClearedFirst(r, private_key) ==
    LET s == sign(r.receipt_hash, private_key)
    IN  IF s.raised THEN Raise([r EXCEPT !.signature = Unsigned])
        ELSE Ok([r EXCEPT !.signature = s.value])

\* TrustReceipt.sign: the receipt after the call, or the exception of crypto.sign.
TrustReceipt_sign(r, private_key) ==
    LET s == sign(r.receipt_hash, private_key)
    IN  IF s.raised THEN Raise(r) ELSE Ok([r EXCEPT !.signature = s.value])

\* TrustReceipt.verify as it would be if it hashed the fields again instead
\* of reading the stored receipt_hash.
TrustReceipt_verify_Recomputed(r, public_key) ==
    IF r.signature = Unsigned THEN Ok(FALSE)
    ELSE verify(r.signature, _compute_receipt_hash(r), public_key)

\* TrustReceipt.verify as it would be without the test of line 118.
TrustReceipt_verify_NoEarlyReturn(r, public_key) ==
    verify(r.signature, r.receipt_hash, public_key)

TrustReceipt_verify(r, public_key) ==
    IF r.signature = Unsigned THEN Ok(FALSE)
    ELSE verify(r.signature, r.receipt_hash, public_key)

TrustReceipt_verify_chain(r, previous) ==
    r.prev_receipt_hash = previous.receipt_hash

to_json(r) ==
    [version |-> r.version,
     timestamp |-> r.timestamp,
     session_id |-> r.session_id,
     agent_id |-> r.agent_id,
     prompt_hash |-> r.prompt_hash,
     response_hash |-> r.response_hash,
     scores |-> r.scores,
     prev_receipt_hash |-> r.prev_receipt_hash,
     receipt_hash |-> r.receipt_hash,
     signature |-> r.signature,
     metadata |-> r.metadata,
     prompt_content |-> r.prompt_content,
     response_content |-> r.response_content]

\* to_dict as it would be if it were asdict alone.
to_dict_AsDict(s) ==
    Dict(<< <<"version", s.version>>,
            <<"timestamp", s.timestamp>>,
            <<"session_id", s.session_id>>,
            <<"agent_id", s.agent_id>>,
            <<"prompt_hash", s.prompt_hash>>,
            <<"response_hash", s.response_hash>>,
            <<"scores", s.scores>>,
            <<"prev_receipt_hash", s.prev_receipt_hash>>,
            <<"receipt_hash", s.receipt_hash>>,
            <<"signature", s.signature>>,
            <<"metadata", s.metadata>>,
            <<"prompt_content", s.prompt_content>>,
            <<"response_content", s.response_content>> >>)

\* SignedReceipt.to_dict: asdict, less the content keys whose value is None.
to_dict(s) ==
    Dict(SelectSeq(
        << <<"version", s.version>>,
           <<"timestamp", s.timestamp>>,
           <<"session_id", s.session_id>>,
           <<"agent_id", s.agent_id>>,
           <<"prompt_hash", s.prompt_hash>>,
           <<"response_hash", s.response_hash>>,
           <<"scores", s.scores>>,
           <<"prev_receipt_hash", s.prev_receipt_hash>>,
           <<"receipt_hash", s.receipt_hash>>,
           <<"signature", s.signature>>,
           <<"metadata", s.metadata>>,
           <<"prompt_content", s.prompt_content>>,
           <<"response_content", s.response_content>> >>,
        LAMBDA pair : ~(pair[1] \in {"prompt_content", "response_content"} /\ pair[2] = None)))

TrustReceiptData(session_id, prompt, response, scores, agent_id, prev_receipt_hash, metadata, include_content) ==
    [session_id |-> session_id, prompt |-> prompt, response |-> response,
     scores |-> scores, agent_id |-> agent_id,
     prev_receipt_hash |-> prev_receipt_hash, metadata |-> metadata,
     include_content |-> include_content]

\* from_json as it would be without lines 165-166: the hash the constructor
\* computed over the dummy data and its empty signature stay.
from_json_Rebuilt(data, now) ==
    LET dummy == TrustReceiptData(data.session_id, Str(""), Str(""), data.scores,
                                  None, None, EmptyDict, FALSE)
        receipt == TrustReceipt(dummy, now)
    IN  [receipt EXCEPT
            !.timestamp = data.timestamp,
            !.agent_id = data.agent_id,
            !.prompt_hash = data.prompt_hash,
            !.response_hash = data.response_hash,
            !.prev_receipt_hash = data.prev_receipt_hash,
            !.metadata = data.metadata,
            !.prompt_content = data.prompt_content,
            !.response_content = data.response_content]

\* from_json as it would be if it computed receipt_hash again from the
\* fields it restored instead of taking the stored one.
from_json_Rehashed(data, now) ==
    LET dummy == TrustReceiptData(data.session_id, Str(""), Str(""), data.scores,
                                  None, None, EmptyDict, FALSE)
        receipt == [Fields(dummy, now) EXCEPT
                       !.timestamp = data.timestamp,
                       !.agent_id = data.agent_id,
                       !.prompt_hash = data.prompt_hash,
                       !.response_hash = data.response_hash,
                       !.prev_receipt_hash = data.prev_receipt_hash,
                       !.metadata = data.metadata,
                       !.prompt_content = data.prompt_content,
                       !.response_content = data.response_content]
    IN  WithHashAndSignature(receipt, _compute_receipt_hash(receipt), data.signature)

\* from_json builds a receipt from dummy data at the instant now and then
\* overwrites every field but version, session_id and scores from the stored
\* record; the hash and the empty signature the constructor set are replaced
\* unread by the stored ones (lines 165-166).
from_json(data, now) ==
    LET dummy == TrustReceiptData(data.session_id, Str(""), Str(""), data.scores,
                                  None, None, EmptyDict, FALSE)
        receipt == Fields(dummy, now)
    IN  WithHashAndSignature(
            [receipt EXCEPT
                !.timestamp = data.timestamp,
                !.agent_id = data.agent_id,
                !.prompt_hash = data.prompt_hash,
                !.response_hash = data.response_hash,
                !.prev_receipt_hash = data.prev_receipt_hash,
                !.metadata = data.metadata,
                !.prompt_content = data.prompt_content,
                !.response_content = data.response_content],
            data.receipt_hash, data.signature)

\* ------------------------------------------------------------------ wrapper.py

\* The orchestrator's keys, and what its caller holds.
VARIABLES
    private_key,        \* TrustReceipts.private_key
    public_key,         \* TrustReceipts.public_key
    default_agent_id,   \* TrustReceipts.default_agent_id
    calculate_scores,   \* TrustReceipts.calculate_scores
    receipts,           \* what the caller holds: each SignedReceipt (rec) with
                        \* the signed TrustReceipt it was made from (origin)
                        \* and the previous_receipt it was built on
    edits,              \* alterations of held receipts so far
    last,               \* the call that has just returned and what it
                        \* returned, "ready" once the caller has moved on
    obj,                \* a TrustReceipt object used directly: the data it
                        \* was built from, the object, the sign calls on it
    calls               \* the wrap calls begun, each with its options, its
                        \* position and what has happened in it

vars == <<private_key, public_key, default_agent_id, calculate_scores, receipts,
          edits, last, obj, calls>>

\* TrustReceipts.__init__: the keys of the instance, or the exception.
TrustReceipts(private_key_arg, public_key_arg, generated) ==
    IF ~Falsy(private_key_arg)
    THEN LET priv == hex_to_bytes(private_key_arg[2])
         IN  IF priv.raised THEN Raise(None)
             ELSE IF ~Falsy(public_key_arg)
             THEN LET pub == hex_to_bytes(public_key_arg[2])
                  IN  IF pub.raised THEN Raise(None)
                      ELSE Ok([private_key |-> priv.value, public_key |-> pub.value])
             ELSE LET derived == get_public_key(priv.value)
                  IN  IF derived.raised THEN Raise(None)
                      ELSE Ok([private_key |-> priv.value,
                               public_key |-> hex_to_bytes(derived.value).value])
    ELSE Ok([private_key |-> hex_to_bytes(generated).value,
             public_key |-> hex_to_bytes(PublicOf(generated)).value])

IsDict(v) == v # None /\ v[1] = "dict"
IsList(v) == v # None /\ v[1] = "list"
Has(d, key) == \E i \in 1..Len(d[2]) : d[2][i][1] = key
Get(d, key) == IF Has(d, key) THEN d[2][CHOOSE i \in 1..Len(d[2]) : d[2][i][1] = key][2]
               ELSE None

\* Python's "key in v": membership for a dict or a list, substring for a str
\* (no payload of the model contains a key as a substring), TypeError otherwise.
In(key, v) ==
    IF IsDict(v) THEN Ok(Has(v, key))
    ELSE IF IsList(v) \/ (v # None /\ v[1] = "str") THEN Ok(FALSE)
    ELSE Raise(FALSE)

ExtractFromContent(response) ==
    LET content == Get(response, "content")
    IN  IF IsList(content) /\ Len(content[2]) > 0
        THEN LET hasText == In("text", content[2][1])
             IN  IF hasText.raised THEN Raise(None)
                 ELSE IF hasText.value THEN Ok(Get(content[2][1], "text"))
                 ELSE Ok(response)
        ELSE Ok(response)

_extract_response_content(response) ==
    IF Falsy(response) \/ ~IsDict(response) THEN Ok(response)
    ELSE LET choices == Get(response, "choices")
         IN  IF IsList(choices) /\ Len(choices[2]) > 0
             THEN IF ~IsDict(choices[2][1]) THEN Raise(None)
                  ELSE LET msg == IF Has(choices[2][1], "message")
                                  THEN Get(choices[2][1], "message") ELSE EmptyDict
                           hasContent == In("content", msg)
                       IN  IF hasContent.raised THEN Raise(None)
                           ELSE IF hasContent.value THEN Ok(Get(msg, "content"))
                           ELSE ExtractFromContent(response)
             ELSE ExtractFromContent(response)

WrapOptions(session_id, input, agent_id, previous_receipt, metadata, scores, extract_response, include_content) ==
    [session_id |-> session_id, input |-> input, agent_id |-> agent_id,
     previous_receipt |-> previous_receipt, metadata |-> OrEmptyDict(metadata),
     scores |-> OrEmptyDict(scores), extract_response |-> extract_response,
     include_content |-> include_content]

\* The injected score function and the caller's extraction function.
CalculatedScores(input, response_content) == Dict(<< <<"overall", Num(50)>> >>)
\* The functions a caller may inject: one that returns scores, one that raises,
\* one that returns None.
ScoreFunction == Str("fn")
FailingScoreFunction == Str("failing_fn")
NoneScoreFunction == Str("none_fn")
\* The call of the score function as it would be inside a handler that
\* goes on without scores.
ApplyScores_Swallowed(calculate, input, response_content) ==
    IF calculate = FailingScoreFunction THEN Ok(EmptyDict)
    ELSE IF calculate = NoneScoreFunction THEN Ok(None)
    ELSE Ok(CalculatedScores(input, response_content))

ApplyScores(calculate, input, response_content) ==
    IF calculate = FailingScoreFunction THEN Raise(None)
    ELSE IF calculate = NoneScoreFunction THEN Ok(None)
    ELSE Ok(CalculatedScores(input, response_content))
Identity == Str("lambda r: r")
TextOf == Str("lambda r: r['text']")
ApplyExtract(extract_response, response) ==
    IF extract_response = TextOf
    THEN IF IsDict(response) /\ Has(response, "text") THEN Ok(Get(response, "text"))
         ELSE Raise(None)
    ELSE Ok(response)

\* Lines 113-125 of wrap and 141-153 of create_receipt: the signed
\* TrustReceipt, or the exception of sign.
\* dict(data.scores) and dict(data.metadata) of the constructor raise on None.
Constructible(data) == IsDict(data.scores) /\ IsDict(data.metadata)
\* The same as it would be if the instance replaced its key by a fresh one
\* before signing.
BuildAndSign_FreshKey(key, data, now) ==
    IF ~Constructible(data) THEN Raise(None)
    ELSE TrustReceipt_sign(TrustReceipt(data, now), "k2")

BuildAndSign(key, data, now) ==
    IF ~Constructible(data) THEN Raise(None)
    ELSE TrustReceipt_sign(TrustReceipt(data, now), key)

\* wrap after fn() has returned response: the signed TrustReceipt, or the
\* exception.
WrapReceipt(key, agent, calculate, options, response, now) ==
    LET extracted == IF options.extract_response # None
                     THEN ApplyExtract(options.extract_response, response)
                     ELSE _extract_response_content(response)
    IN  IF extracted.raised THEN Raise(None)
        ELSE LET response_content == extracted.value
                 scores == IF ~Falsy(options.scores) THEN Ok(options.scores)
                           ELSE IF calculate # None
                                THEN ApplyScores(calculate, options.input, response_content)
                           ELSE Ok(EmptyDict)
             IN  IF scores.raised THEN Raise(None)
                 ELSE BuildAndSign(key,
                     TrustReceiptData(
                         options.session_id, options.input, response_content,
                         scores.value,
                         IF Falsy(options.agent_id) THEN agent ELSE options.agent_id,
                         IF options.previous_receipt # None
                         THEN options.previous_receipt.receipt_hash ELSE None,
                         options.metadata, options.include_content),
                     now)

\* create_receipt: the signed TrustReceipt, or the exception.
CreateReceiptObject(key, agent, session_id, prompt, response, agent_id, previous_receipt, metadata, scores, include_content, now) ==
    BuildAndSign(key,
        TrustReceiptData(
            session_id, prompt, response, OrEmptyDict(scores),
            IF Falsy(agent_id) THEN agent ELSE agent_id,
            IF previous_receipt # None THEN previous_receipt.receipt_hash ELSE None,
            OrEmptyDict(metadata), include_content),
        now)

verify_receipt(pub, receipt, now) == TrustReceipt_verify(from_json(receipt, now), pub)

ChainBreak(a, b) == <<"Chain break between receipt", a, "and", b>>
InvalidSignature(i) == <<"Invalid signature on receipt", i>>
NoResult == [valid |-> FALSE, errors |-> <<>>]

\* The loop of verify_chain from Python index i on (list[i + 1] here).
RECURSIVE VerifyChainLoop(_, _, _, _, _)
VerifyChainLoop(pub, list, i, errors, now) ==
    IF i >= Len(list) THEN Ok([valid |-> Len(errors) = 0, errors |-> errors])
    ELSE LET current == from_json(list[i + 1], now)
             previous == from_json(list[i], now)
             linked == IF ~TrustReceipt_verify_chain(current, previous)
                       THEN Append(errors, ChainBreak(i - 1, i)) ELSE errors
             verified == TrustReceipt_verify(current, pub)
         IN  IF verified.raised THEN Raise(NoResult)
             ELSE VerifyChainLoop(pub, list, i + 1,
                      IF ~verified.value THEN Append(linked, InvalidSignature(i))
                      ELSE linked,
                      now)

\* verify_chain as it would be if it returned at the first error.
RECURSIVE FailFastLoop(_, _, _, _)
FailFastLoop(pub, list, i, now) ==
    IF i >= Len(list) THEN Ok([valid |-> TRUE, errors |-> <<>>])
    ELSE LET current == from_json(list[i + 1], now)
             previous == from_json(list[i], now)
             verified == TrustReceipt_verify(current, pub)
         IN  IF ~TrustReceipt_verify_chain(current, previous)
             THEN Ok([valid |-> FALSE, errors |-> <<ChainBreak(i - 1, i)>>])
             ELSE IF verified.raised THEN Raise(NoResult)
             ELSE IF ~verified.value
             THEN Ok([valid |-> FALSE, errors |-> <<InvalidSignature(i)>>])
             ELSE FailFastLoop(pub, list, i + 1, now)

verify_chain_FailFast(pub, list, now) == FailFastLoop(pub, list, 1, now)

verify_chain(pub, list, now) == VerifyChainLoop(pub, list, 1, <<>>, now)

\* ------------------------------------------------------------------ inputs

\* The constructor calls tried: keys generated, a private key alone, a private
\* key with a public key that is not its own, key material of the wrong
\* length, and key material that is not hex.
Construction(private_key_arg, public_key_arg, agent, calculate) ==
    [private_key |-> private_key_arg, public_key |-> public_key_arg,
     default_agent_id |-> agent, calculate_scores |-> calculate]
Constructions ==
    {Construction(None, None, None, None),
     Construction(Str("k1"), None, None, None),
     Construction(Str("k1"), Str("pk2"), None, None),
     Construction(Str(BadLenKey), Str("pk2"), None, None),
     Construction(Str(BadLenKey), None, None, None),
     Construction(Str(NonHexKey), None, None, None),
     Construction(Str("k1"), Str(NonHexKey), None, None)}
GeneratedKeys == {"k1"}

SessionIds == {Str("s")}
Prompts == {Str("q1")}
Responses == {Str("a1")}
AgentIds == {None}
ScoresArgs == {None}
MetadataArgs == {None}
ContentFlags == {FALSE}
Timestamps == {Str("t1")}
Extractors == {None}
FnResults ==
    {Str("a1"),
     Dict(<< <<"choices", List(<< Dict(<< <<"message",
                Dict(<< <<"content", Str("a1")>> >>)>> >>) >>)>> >>)}
VerifyKeys == PublicKeys \cup {BadLenKey, NonHexKey}

RoundTripScores == {EmptyDict, Dict(<< <<"clarity", Num(90)>>, <<"overall", Num(80)>> >>)}
LaterTimestamps == Timestamps \cup {Str("t2")}
Ready == [op |-> "ready"]
NoObject == [made |-> FALSE]

Held == {receipts[i].rec : i \in 1..Len(receipts)}
PreviousArgs == {None} \cup Held

\* ------------------------------------------------------------------ actions

Init ==
    /\ \E call \in Constructions, generated \in GeneratedKeys :
          LET made == TrustReceipts(call.private_key, call.public_key, generated)
          IN  /\ ~made.raised
              /\ private_key = made.value.private_key
              /\ public_key = made.value.public_key
              /\ default_agent_id = call.default_agent_id
              /\ calculate_scores = call.calculate_scores
    /\ receipts = <<>>
    /\ edits = 0
    /\ last = Ready
    /\ obj = NoObject
    /\ calls = <<>>

Keep(signed, previous) ==
    Append(receipts, [rec |-> to_json(signed), origin |-> signed, previous |-> previous])

CreateReceipt ==
    /\ last = Ready
    /\ Len(receipts) < MaxReceipts
    /\ \E session_id \in SessionIds, prompt \in Prompts, response \in Responses,
          agent_id \in AgentIds, previous \in PreviousArgs, metadata \in MetadataArgs,
          scores \in ScoresArgs, include_content \in ContentFlags, now \in Timestamps :
          LET made == CreateReceiptObject(private_key, default_agent_id, session_id,
                          prompt, response, agent_id, previous, metadata, scores,
                          include_content, now)
          IN  IF made.raised
              THEN /\ last' = [op |-> "create_receipt", raised |-> TRUE]
                   /\ UNCHANGED receipts
              ELSE /\ last' = [op |-> "create_receipt", raised |-> FALSE]
                   /\ receipts' = Keep(made.value, previous)
    /\ UNCHANGED <<obj, calls, private_key, public_key, default_agent_id, calculate_scores, edits>>

\* wrap: fn() is awaited and returns response, then extraction, scores,
\* receipt and signature.
Wrap ==
    /\ last = Ready
    /\ Len(receipts) < MaxReceipts
    /\ \E session_id \in SessionIds, input \in Prompts, agent_id \in AgentIds,
          previous \in PreviousArgs, metadata \in MetadataArgs, scores \in ScoresArgs,
          extract_response \in Extractors, include_content \in ContentFlags,
          response \in FnResults, now \in Timestamps :
          LET options == WrapOptions(session_id, input, agent_id, previous, metadata,
                                     scores, extract_response, include_content)
              made == WrapReceipt(private_key, default_agent_id, calculate_scores,
                                  options, response, now)
          IN  IF made.raised
              THEN /\ last' = [op |-> "wrap", raised |-> TRUE]
                   /\ UNCHANGED receipts
              ELSE /\ last' = [op |-> "wrap", raised |-> FALSE, response |-> response]
                   /\ receipts' = Keep(made.value, previous)
    /\ UNCHANGED <<obj, calls, private_key, public_key, default_agent_id, calculate_scores, edits>>

\* wrap when the awaited fn() raises: the exception passes through.
WrapFails ==
    /\ last = Ready
    /\ last' = [op |-> "wrap", raised |-> TRUE]
    /\ UNCHANGED <<obj, calls, private_key, public_key, default_agent_id, calculate_scores,
                   receipts, edits>>

\* TrustReceipts.verify_receipt on a held receipt.
VerifyReceipt ==
    /\ last = Ready
    /\ \E i \in 1..Len(receipts), now \in Timestamps :
          last' = [op |-> "verify_receipt", index |-> i,
                   result |-> verify_receipt(public_key, receipts[i].rec, now)]
    /\ UNCHANGED <<obj, calls, private_key, public_key, default_agent_id, calculate_scores,
                   receipts, edits>>

\* TrustReceipt.from_json(...).verify(key) by anyone, with any key.
Verify ==
    /\ last = Ready
    /\ \E i \in 1..Len(receipts), key \in VerifyKeys, now \in Timestamps :
          last' = [op |-> "verify", index |-> i, key |-> key,
                   result |-> TrustReceipt_verify(from_json(receipts[i].rec, now), key)]
    /\ UNCHANGED <<obj, calls, private_key, public_key, default_agent_id, calculate_scores,
                   receipts, edits>>

\* The lists of held receipts, in any order, without repetition.
RECURSIVE Lists(_)
Lists(n) ==
    IF n = 0 THEN {<<>>}
    ELSE Lists(n - 1) \cup
         {Append(l, i) : l \in {m \in Lists(n - 1) : Len(m) = n - 1},
                         i \in 1..Len(receipts)}

ChainLists == {l \in Lists(MaxChain) : \A a, b \in 1..Len(l) : a # b => l[a] # l[b]}

VerifyChain ==
    /\ last = Ready
    /\ \E l \in ChainLists, now \in Timestamps :
          last' = [op |-> "verify_chain", list |-> l,
                   result |-> verify_chain(public_key,
                                  [n \in 1..Len(l) |-> receipts[l[n]].rec], now)]
    /\ UNCHANGED <<obj, calls, private_key, public_key, default_agent_id, calculate_scores,
                   receipts, edits>>

\* Whoever holds a SignedReceipt can assign its fields (a plain dataclass).
\* The values an altered field may take:
WrongHash == sha256(Str("wrong_hash"))
HashedFields ==
    {"version", "timestamp", "session_id", "agent_id", "prompt_hash", "response_hash",
     "scores", "prev_receipt_hash", "metadata"}
HeldHashes == {receipts[i].rec.receipt_hash : i \in 1..Len(receipts)}
HeldSignatures == {receipts[i].rec.signature : i \in 1..Len(receipts)}
Alternatives(f) ==
    CASE f = "version" -> {Str("2.0")}
      [] f = "timestamp" -> {Str("t0")}
      [] f = "session_id" -> {Str("x")}
      [] f = "agent_id" -> {Str("mallory")}
      [] f = "prompt_hash" -> {_hash_content(Str("forged"))}
      [] f = "response_hash" -> {_hash_content(Str("forged"))}
      [] f = "scores" -> {Dict(<< <<"overall", Num(100)>> >>)}
      [] f = "metadata" -> {Dict(<< <<"model", Str("m")>> >>)}
      [] f = "prev_receipt_hash" -> {None, WrongHash} \cup HeldHashes
      [] f = "receipt_hash" -> {WrongHash} \cup HeldHashes
      [] f = "signature" -> {Unsigned, NonHexSig, BadLenSig} \cup HeldSignatures

\* One field of a held receipt is altered; with rehash the holder also
\* recomputes receipt_hash over the altered fields.
Tamper ==
    /\ last = Ready
    /\ edits < MaxEdits
    /\ \E i \in 1..Len(receipts), f \in HashedFields \cup {"receipt_hash", "signature"},
          rehash \in BOOLEAN :
          \E v \in Alternatives(f) :
              LET altered == [receipts[i].rec EXCEPT ![f] = v]
              IN  /\ v # receipts[i].rec[f]
                  /\ rehash => f \in HashedFields
                  /\ receipts' = [receipts EXCEPT ![i].rec =
                        IF rehash
                        THEN [altered EXCEPT !.receipt_hash = _compute_receipt_hash(altered)]
                        ELSE altered]
    /\ edits' = edits + 1
    /\ UNCHANGED <<obj, calls, private_key, public_key, default_agent_id, calculate_scores, last>>

\* TrustReceipt.from_json(held).sign(key), by anyone and with any key, kept
\* in place of the held record.
Resign ==
    /\ last = Ready
    /\ edits < MaxEdits
    /\ \E i \in 1..Len(receipts), key \in PrivateKeys \cup {BadLenKey, NonHexKey},
          now \in Timestamps :
          LET signed == TrustReceipt_sign(from_json(receipts[i].rec, now), key)
          IN  IF signed.raised
              THEN /\ last' = [op |-> "sign", raised |-> TRUE]
                   /\ UNCHANGED receipts
              ELSE /\ last' = [op |-> "sign", raised |-> FALSE]
                   /\ receipts' = [receipts EXCEPT ![i].rec = to_json(signed.value)]
    /\ edits' = edits + 1
    /\ UNCHANGED <<obj, calls, private_key, public_key, default_agent_id, calculate_scores>>

\* The library used without the orchestrator: TrustReceipt(data), sign(seed),
\* to_json(), from_json() at a later time, verify(key).
RoundTrip ==
    /\ last = Ready
    /\ \E session_id \in SessionIds, prompt \in Prompts, response \in Responses,
          scores \in RoundTripScores, include_content \in BOOLEAN,
          seed \in PrivateKeys, key \in VerifyKeys, now \in Timestamps,
          later \in LaterTimestamps :
          LET data == TrustReceiptData(session_id, prompt, response, scores, None,
                                       None, EmptyDict, include_content)
              original == TrustReceipt_sign(TrustReceipt(data, now), seed).value
              restored == from_json(to_json(original), later)
          IN  last' = [op |-> "roundtrip", original |-> original, restored |-> restored,
                       seed |-> seed, key |-> key,
                       result |-> TrustReceipt_verify(restored, key)]
    /\ UNCHANGED <<obj, calls, private_key, public_key, default_agent_id, calculate_scores,
                   receipts, edits>>

\* TrustReceipt(data).verify(key) on a receipt that was never signed.
VerifyUnsigned ==
    /\ last = Ready
    /\ \E session_id \in SessionIds, prompt \in Prompts, response \in Responses,
          key \in VerifyKeys, now \in Timestamps :
          LET data == TrustReceiptData(session_id, prompt, response, EmptyDict, None,
                                       None, EmptyDict, FALSE)
              built == TrustReceipt(data, now)
          IN  last' = [op |-> "verify_unsigned", receipt |-> built, key |-> key,
                       result |-> TrustReceipt_verify(built, key)]
    /\ UNCHANGED <<obj, calls, private_key, public_key, default_agent_id, calculate_scores,
                   receipts, edits>>

\* TrustReceipt.from_json(held).to_json(), at any later time.
Reload ==
    /\ last = Ready
    /\ \E i \in 1..Len(receipts), now \in LaterTimestamps :
          last' = [op |-> "reload", index |-> i,
                   result |-> to_json(from_json(receipts[i].rec, now))]
    /\ UNCHANGED <<obj, calls, private_key, public_key, default_agent_id, calculate_scores,
                   receipts, edits>>

\* The caller has looked at what the call returned and goes on.
Continue ==
    /\ last # Ready
    /\ last' = Ready
    /\ UNCHANGED <<obj, calls, private_key, public_key, default_agent_id, calculate_scores,
                   receipts, edits>>

Next ==
    \/ CreateReceipt
    \/ Wrap
    \/ WrapFails
    \/ VerifyReceipt
    \/ Verify
    \/ VerifyChain
    \/ Tamper
    \/ Resign
    \/ RoundTrip
    \/ VerifyUnsigned
    \/ Reload
    \/ Continue

Spec == Init /\ [][Next]_vars

\* ------------------------------------------------------------------ the library used directly

\* Most sign calls on one TrustReceipt object.
MaxSigns == 2

\* What a caller may hand to the constructor.
ScoresAB == Dict(<< <<"clarity", Num(90)>>, <<"overall", Num(80)>> >>)
ScoresBA == Dict(<< <<"overall", Num(80)>>, <<"clarity", Num(90)>> >>)
MetadataAB ==
    Dict(<< <<"model", Str("m")>>,
            <<"metadata", Dict(<< <<"text", Num(1)>>, <<"message", Num(2)>> >>)>> >>)
MetadataBA ==
    Dict(<< <<"metadata", Dict(<< <<"message", Num(2)>>, <<"text", Num(1)>> >>)>>,
            <<"model", Str("m")>> >>)
RichSessionIds == {Str("s"), Str("")}
RichPrompts == {Str("q1"), Str(""), None}
RichResponses == {Str("a1"), None}
RichScores == {EmptyDict, ScoresAB, ScoresBA}
RichAgentIds == {None, Str("agent")}
RichPrevHashes == {None, WrongHash}
RichMetadata == {EmptyDict, MetadataAB, MetadataBA}
SigningKeys == PrivateKeys \cup {BadLenKey, NonHexKey}

\* The orchestrator of this specification: keys generated, with or without a
\* default agent and an injected score function.
BuilderConstructions ==
    {Construction(None, None, None, None),
     Construction(None, None, Str("agent0"), ScoreFunction)}

BuilderInit ==
    /\ \E call \in BuilderConstructions, generated \in GeneratedKeys :
          LET made == TrustReceipts(call.private_key, call.public_key, generated)
          IN  /\ private_key = made.value.private_key
              /\ public_key = made.value.public_key
              /\ default_agent_id = call.default_agent_id
              /\ calculate_scores = call.calculate_scores
    /\ receipts = <<>>
    /\ edits = 0
    /\ last = Ready
    /\ obj = NoObject
    /\ calls = <<>>

\* receipt = TrustReceipt(data)
Build ==
    /\ last = Ready
    /\ ~obj.made
    /\ \E session_id \in RichSessionIds, prompt \in RichPrompts, response \in RichResponses,
          scores \in RichScores, agent_id \in RichAgentIds,
          prev_receipt_hash \in RichPrevHashes, metadata \in RichMetadata,
          include_content \in BOOLEAN, now \in Timestamps :
          LET data == TrustReceiptData(session_id, prompt, response, scores, agent_id,
                                       prev_receipt_hash, metadata, include_content)
          IN  obj' = [made |-> TRUE, data |-> data, receipt |-> TrustReceipt(data, now),
                      constructed |-> TrustReceipt(data, now), signs |-> <<>>]
    /\ UNCHANGED <<calls, private_key, public_key, default_agent_id, calculate_scores,
                   receipts, edits, last>>

\* await receipt.sign(key)
SignObject ==
    /\ last = Ready
    /\ obj.made
    /\ Len(obj.signs) < MaxSigns
    /\ \E key \in SigningKeys :
          LET signed == TrustReceipt_sign(obj.receipt, key)
          IN  obj' = [obj EXCEPT
                        !.receipt = signed.value,
                        !.signs = Append(@, [key |-> key, raised |-> signed.raised,
                                             before |-> obj.receipt,
                                             signature |-> signed.value.signature])]
    /\ UNCHANGED <<calls, private_key, public_key, default_agent_id, calculate_scores,
                   receipts, edits, last>>

\* await receipt.verify(key)
VerifyObject ==
    /\ last = Ready
    /\ obj.made
    /\ \E key \in VerifyKeys :
          last' = [op |-> "object_verify", key |-> key,
                   result |-> TrustReceipt_verify(obj.receipt, key)]
    /\ UNCHANGED <<obj, calls, private_key, public_key, default_agent_id, calculate_scores,
                   receipts, edits>>

\* receipt.verify_chain(previous), previous another receipt of the same
\* session built on nothing, or the receipt itself.
VerifyChainObject ==
    /\ last = Ready
    /\ obj.made
    /\ \E previous \in {obj.receipt,
                          TrustReceipt(TrustReceiptData(obj.data.session_id, Str("q0"),
                              Str("a0"), EmptyDict, None, None, EmptyDict, FALSE),
                              Str("t0"))} :
          last' = [op |-> "object_verify_chain", previous |-> previous.receipt_hash,
                   result |-> Ok(TrustReceipt_verify_chain(obj.receipt, previous))]
    /\ UNCHANGED <<obj, calls, private_key, public_key, default_agent_id, calculate_scores,
                   receipts, edits>>

\* receipt.to_json() and the to_dict() of what it returns.
SerializeObject ==
    /\ last = Ready
    /\ obj.made
    /\ last' = [op |-> "object_to_json", result |-> Ok(to_json(obj.receipt)),
                 dict |-> to_dict(to_json(obj.receipt))]
    /\ UNCHANGED <<obj, calls, private_key, public_key, default_agent_id, calculate_scores,
                   receipts, edits>>

\* What the awaited fn() may return, and the options of a call.
OpenAIShape ==
    Dict(<< <<"choices", List(<< Dict(<< <<"message",
                Dict(<< <<"content", Str("hi")>> >>)>> >>) >>)>> >>)
AnthropicShape ==
    Dict(<< <<"content", List(<< Dict(<< <<"text", Str("hello")>> >>) >>)>> >>)
PlainShape == Dict(<< <<"text", Str("plain")>> >>)
\* Results with a choices or content list whose first element is no mapping.
ChoicesOfStrings == Dict(<< <<"choices", List(<<Str("hi")>>)>> >>)
ContentOfNumbers == Dict(<< <<"content", List(<<Num(1)>>)>> >>)
RichFnResults ==
    {Str("a1"), None, OpenAIShape, AnthropicShape, PlainShape, ChoicesOfStrings,
     ContentOfNumbers}
RichExtractors == {None, Identity, TextOf}
RichScoresArgs == {None} \cup RichScores
RichMetadataArgs == {None} \cup RichMetadata
SampleReceipt ==
    to_json(TrustReceipt_sign(
        TrustReceipt(TrustReceiptData(Str("s"), Str("q0"), Str("a0"), EmptyDict, None,
                                      None, EmptyDict, FALSE), Str("t0")),
        "k1").value)
RichPreviousArgs == {None, SampleReceipt}

\* One create_receipt call of the orchestrator, what was handed to it and
\* what it returned.  The orchestrator's calls neither read nor write the
\* object of the caller, and are taken before one is built.
CreateReceiptOnce ==
    /\ last = Ready
    /\ ~obj.made
    /\ \E session_id \in RichSessionIds, prompt \in RichPrompts, response \in RichResponses,
          agent_id \in RichAgentIds, previous \in RichPreviousArgs,
          metadata \in RichMetadataArgs, scores \in RichScoresArgs,
          include_content \in BOOLEAN, now \in Timestamps :
          LET made == CreateReceiptObject(private_key, default_agent_id, session_id,
                          prompt, response, agent_id, previous, metadata, scores,
                          include_content, now)
          IN  last' = IF made.raised
                      THEN [op |-> "create_receipt_once", raised |-> TRUE]
                      ELSE [op |-> "create_receipt_once",
                            session_id |-> session_id, prompt |-> prompt,
                            response |-> response,
                            include_content |-> include_content,
                            raised |-> FALSE,
                            receipt |-> to_json(made.value),
                            dict |-> to_dict(to_json(made.value))]
    /\ UNCHANGED <<obj, calls, private_key, public_key, default_agent_id, calculate_scores,
                   receipts, edits>>

\* One wrap call taken as a whole: fn() returns response, and wrap returns.
WrapOnce ==
    /\ last = Ready
    /\ ~obj.made
    /\ \E session_id \in RichSessionIds, input \in RichPrompts, agent_id \in RichAgentIds,
          metadata \in RichMetadataArgs, scores \in RichScoresArgs,
          extract_response \in RichExtractors, include_content \in BOOLEAN,
          response \in RichFnResults, now \in Timestamps :
          LET options == WrapOptions(session_id, input, agent_id, None, metadata,
                                     scores, extract_response, include_content)
              extracted == IF extract_response # None
                           THEN ApplyExtract(extract_response, response)
                           ELSE _extract_response_content(response)
              made == WrapReceipt(private_key, default_agent_id, calculate_scores,
                                  options, response, now)
          IN  last' = IF made.raised
                      THEN [op |-> "wrap_once", raised |-> TRUE, given |-> response,
                            options |-> options]
                      ELSE [op |-> "wrap_once", given |-> response, options |-> options,
                            session_id |-> session_id, prompt |-> input,
                            response |-> extracted.value,
                            include_content |-> include_content,
                            raised |-> FALSE,
                            receipt |-> to_json(made.value),
                            dict |-> to_dict(to_json(made.value))]
    /\ UNCHANGED <<obj, calls, private_key, public_key, default_agent_id, calculate_scores,
                   receipts, edits>>

\* Another TrustReceipt(data) with the scores and the metadata given anew,
\* in any order of their keys, everything else as in the first.
BuildAgain ==
    /\ last = Ready
    /\ obj.made
    /\ \E scores \in RichScores, metadata \in RichMetadata, now \in LaterTimestamps :
          LET data == [obj.data EXCEPT !.scores = scores, !.metadata = metadata]
          IN  last' = [op |-> "build_again", data |-> data,
                       receipt |-> TrustReceipt(data, now)]
    /\ UNCHANGED <<obj, calls, private_key, public_key, default_agent_id, calculate_scores,
                   receipts, edits>>

BuilderNext ==
    \/ Build
    \/ CreateReceiptOnce
    \/ WrapOnce
    \/ SignObject
    \/ VerifyObject
    \/ VerifyChainObject
    \/ SerializeObject
    \/ BuildAgain
    \/ Continue

BuilderSpec == BuilderInit /\ [][BuilderNext]_vars

\* ------------------------------------------------------------------ wrap, step by step

\* Most wrap calls begun on one orchestrator.
MaxCalls == 2

\* wrap from line 101 on as it would be if the receipt were built from the
\* raw result of fn().
WrapAfterFn_RawHashed(key, agent, calculate, options, response, now) ==
    LET extracted == IF options.extract_response # None
                     THEN ApplyExtract(options.extract_response, response)
                     ELSE _extract_response_content(response)
        scores == IF ~Falsy(options.scores) THEN Ok(options.scores)
                  ELSE IF calculate # None
                       THEN ApplyScores(calculate, options.input, extracted.value)
                  ELSE Ok(EmptyDict)
        data == TrustReceiptData(
                    options.session_id, options.input, response, scores.value,
                    IF Falsy(options.agent_id) THEN agent ELSE options.agent_id,
                    None, options.metadata, options.include_content)
        signed == TrustReceipt_sign(TrustReceipt(data, now), key)
    IN  IF extracted.raised \/ scores.raised \/ ~Constructible(data) \/ signed.raised
        THEN [raised |-> TRUE, events |-> <<"extract">>, value |-> None]
        ELSE [raised |-> FALSE,
              events |-> <<"extract", "construct", "sign", "to_json">>,
              value |-> [response |-> response, receipt |-> to_json(signed.value)]]

\* wrap from line 101 on, once the awaited fn() has returned response: what
\* was done, in order, and what wrap returns or that it raised.
WrapAfterFn(key, agent, calculate, options, response, now) ==
    LET extracted == IF options.extract_response # None
                     THEN ApplyExtract(options.extract_response, response)
                     ELSE _extract_response_content(response)
        asked == Falsy(options.scores) /\ calculate # None
        scores == IF ~Falsy(options.scores) THEN Ok(options.scores)
                  ELSE IF calculate # None
                       THEN ApplyScores(calculate, options.input, extracted.value)
                  ELSE Ok(EmptyDict)
        data == TrustReceiptData(
                    options.session_id, options.input, extracted.value, scores.value,
                    IF Falsy(options.agent_id) THEN agent ELSE options.agent_id,
                    IF options.previous_receipt # None
                    THEN options.previous_receipt.receipt_hash ELSE None,
                    options.metadata, options.include_content)
        signed == TrustReceipt_sign(TrustReceipt(data, now), key)
        scoring == IF asked THEN <<"extract", "calculate_scores">> ELSE <<"extract">>
    IN  IF extracted.raised
        THEN [raised |-> TRUE, events |-> <<"extract">>, value |-> None]
        ELSE IF scores.raised
        THEN [raised |-> TRUE, events |-> scoring, value |-> None]
        ELSE IF ~Constructible(data)
        THEN [raised |-> TRUE, events |-> scoring \o <<"construct">>, value |-> None]
        ELSE IF signed.raised
        THEN [raised |-> TRUE, events |-> scoring \o <<"construct", "sign">>,
              value |-> None]
        ELSE [raised |-> FALSE,
              events |-> scoring \o <<"construct", "sign", "to_json">>,
              value |-> [response |-> response, receipt |-> to_json(signed.value)]]

\* wrap as it would be if it caught the failure of fn() and issued a
\* receipt for no response.
WrapOnFailure_Swallowed(key, agent, calculate, options, error, now) ==
    WrapAfterFn(key, agent, calculate, options, None, now)

\* wrap when the awaited fn() raises error: line 99 has no handler.
WrapOnFailure(key, agent, calculate, options, error, now) ==
    [raised |-> TRUE, events |-> <<>>, value |-> error]

OperationError == Str("OperationError")
CancelledError == Str("CancelledError")
FnErrors == {OperationError, CancelledError}
StepFnResults == {Str("a1"), OpenAIShape, PlainShape}
StepScoresArgs == {None, EmptyDict, ScoresAB}
StepExtractors == {None, TextOf}

\* The orchestrators of this specification: each kind of score function, and
\* a private key of the wrong length handed over with a public key.
WrapConstructions ==
    {Construction(None, None, None, c) :
        c \in {None, ScoreFunction, FailingScoreFunction, NoneScoreFunction}}
    \cup {Construction(Str(BadLenKey), Str("pk2"), None, None)}

WrapInit ==
    /\ \E call \in WrapConstructions, generated \in GeneratedKeys :
          LET made == TrustReceipts(call.private_key, call.public_key, generated)
          IN  /\ ~made.raised
              /\ private_key = made.value.private_key
              /\ public_key = made.value.public_key
              /\ default_agent_id = call.default_agent_id
              /\ calculate_scores = call.calculate_scores
    /\ receipts = <<>>
    /\ edits = 0
    /\ last = Ready
    /\ obj = NoObject
    /\ calls = <<>>

StepSessionIds == {Str("s"), Str("s2")}

\* The calls that have run to their end so far; place is a call's place in
\* the order in which the calls ended.
Finished == Cardinality({j \in 1..Len(calls) : calls[j].pc # "awaiting"})

\* wrap(fn, options) is called: fn() is invoked and awaited (line 99).
WrapBegin ==
    /\ Len(calls) < MaxCalls
    /\ \E session_id \in StepSessionIds, input \in Prompts, scores \in StepScoresArgs,
          extract_response \in StepExtractors, include_content \in BOOLEAN :
          calls' = Append(calls,
              [options |-> WrapOptions(session_id, input, None, None, None, scores,
                                       extract_response, include_content),
               scores_arg |-> scores,
               pc |-> "awaiting", runs |-> 1, events |-> <<"fn">>])
    /\ UNCHANGED <<obj, private_key, public_key, default_agent_id, calculate_scores,
                   receipts, edits, last>>

\* The same as it would be if wrap kept its options on the instance: the
\* call that resumes finds the options of the call begun last.
FnReturns_OptionsOnInstance ==
    /\ \E i \in 1..Len(calls), response \in StepFnResults, now \in Timestamps :
          LET after == WrapAfterFn(private_key, default_agent_id, calculate_scores,
                                   calls[Len(calls)].options, response, now)
          IN  /\ calls[i].pc = "awaiting"
              /\ calls' = [calls EXCEPT ![i] =
                    [options |-> calls[i].options,
                     pc |-> IF after.raised THEN "raised" ELSE "returned",
                     scores_arg |-> calls[i].scores_arg,
                     runs |-> calls[i].runs,
                     place |-> Finished + 1,
                     events |-> calls[i].events \o <<"fn returned">> \o after.events,
                     outcome |-> Ok(response),
                     result |-> [raised |-> after.raised, value |-> after.value]]]
    /\ UNCHANGED <<obj, private_key, public_key, default_agent_id, calculate_scores,
                   receipts, edits, last>>

\* The awaited fn() of call i returns response and wrap runs to its end.
FnReturns ==
    /\ \E i \in 1..Len(calls), response \in StepFnResults, now \in Timestamps :
          LET after == WrapAfterFn(private_key, default_agent_id, calculate_scores,
                                   calls[i].options, response, now)
          IN  /\ calls[i].pc = "awaiting"
              /\ calls' = [calls EXCEPT ![i] =
                    [options |-> calls[i].options,
                     pc |-> IF after.raised THEN "raised" ELSE "returned",
                     scores_arg |-> calls[i].scores_arg,
                     runs |-> calls[i].runs,
                     place |-> Finished + 1,
                     events |-> calls[i].events \o <<"fn returned">> \o after.events,
                     outcome |-> Ok(response),
                     result |-> [raised |-> after.raised, value |-> after.value]]]
    /\ UNCHANGED <<obj, private_key, public_key, default_agent_id, calculate_scores,
                   receipts, edits, last>>

\* The awaited fn() of call i raises, or the call is cancelled while it waits.
FnRaises ==
    /\ \E i \in 1..Len(calls), error \in FnErrors, now \in Timestamps :
          LET after == WrapOnFailure(private_key, default_agent_id, calculate_scores,
                                     calls[i].options, error, now)
          IN  /\ calls[i].pc = "awaiting"
              /\ calls' = [calls EXCEPT ![i] =
                    [options |-> calls[i].options,
                     pc |-> IF after.raised THEN "raised" ELSE "returned",
                     scores_arg |-> calls[i].scores_arg,
                     runs |-> calls[i].runs,
                     place |-> Finished + 1,
                     events |-> calls[i].events \o <<"fn raised">> \o after.events,
                     outcome |-> Raise(error),
                     result |-> [raised |-> after.raised, value |-> after.value]]]
    /\ UNCHANGED <<obj, private_key, public_key, default_agent_id, calculate_scores,
                   receipts, edits, last>>

WrapNext ==
    \/ WrapBegin
    \/ FnReturns
    \/ FnRaises

WrapSpec == WrapInit /\ [][WrapNext]_vars

\* ------------------------------------------------------------------ core/python/canonicalize.py

\* normalize_text on the texts of the model: runs of blanks become one blank,
\* typographic quotes become ASCII quotes, the ends are trimmed.
normalize_text(s) ==
    CASE s = "Hello   world" -> "Hello world"
      [] s = " Hello world " -> "Hello world"
      [] OTHER -> s

\* sort_keys: the items of a dict whose value is not None, in the order of
\* their keys, the values sorted in turn; the items of a list sorted in turn,
\* None among them kept; anything else as it stands.
RECURSIVE sort_keys(_)
RECURSIVE SortedItems(_, _)
SortedItems(pairs, n) ==
    IF n = 0 THEN <<>>
    ELSE IF pairs[n][2] = None THEN SortedItems(pairs, n - 1)
    ELSE InsertMember(SortedItems(pairs, n - 1), <<pairs[n][1], sort_keys(pairs[n][2])>>)

sort_keys(value) ==
    IF IsDict(value) THEN Dict(SortedItems(value[2], Len(value[2])))
    ELSE IF IsList(value) THEN List([i \in 1..Len(value[2]) |-> sort_keys(value[2][i])])
    ELSE value

\* json.dumps(obj, separators=(',', ':'), ensure_ascii=False), as the
\* sequence of the tokens of its text: the keys of a dict in the order the
\* dict holds them, no whitespace.
RECURSIVE json_dumps(_)
RECURSIVE DumpMembers(_, _)
RECURSIVE DumpItems(_, _)
DumpMembers(pairs, n) ==
    IF n = 0 THEN <<>>
    ELSE DumpMembers(pairs, n - 1) \o (IF n > 1 THEN <<",">> ELSE <<>>)
         \o <<"\"" \o pairs[n][1] \o "\"", ":">> \o json_dumps(pairs[n][2])

DumpItems(items, n) ==
    IF n = 0 THEN <<>>
    ELSE DumpItems(items, n - 1) \o (IF n > 1 THEN <<",">> ELSE <<>>)
         \o json_dumps(items[n])

json_dumps(value) ==
    IF value = None THEN <<"null">>
    ELSE IF value[1] = "dict" THEN <<"{">> \o DumpMembers(value[2], Len(value[2])) \o <<"}">>
    ELSE IF value[1] = "list" THEN <<"[">> \o DumpItems(value[2], Len(value[2])) \o <<"]">>
    ELSE IF value[1] = "num" THEN <<ToString(value[2])>>
    ELSE <<"\"" \o value[2] \o "\"">>

\* transcript.get(key, default)
GetOr(d, key, default) == IF Has(d, key) THEN Get(d, key) ELSE default

\* One turn as canonical_transcript rebuilds it.
NormalizedTurn(t) ==
    Dict(<< <<"role", Get(t, "role")>>, <<"ts_ms", Get(t, "ts_ms")>>,
            <<"model", GetOr(t, "model", Str(""))>>,
            <<"content", Str(normalize_text(Get(t, "content")[2]))>> >>)

canonical_transcript(transcript) ==
    LET given == GetOr(transcript, "turns", List(<<>>))[2]
        turns == [i \in 1..Len(given) |-> NormalizedTurn(given[i])]
        canonical ==
            Dict(<< <<"session_id", Get(transcript, "session_id")>>,
                    <<"created_ms", Get(transcript, "created_ms")>>,
                    <<"model", Dict(<< <<"name", Get(Get(transcript, "model"), "name")>>,
                                       <<"revision", GetOr(Get(transcript, "model"), "revision", Str(""))>> >>)>>,
                    <<"derived", GetOr(transcript, "derived", EmptyDict)>>,
                    <<"turns", List(turns)>> >>)
    IN  json_dumps(sort_keys(canonical))

\* Values of the CanonicalValue domain: null, a number, strings, lists, and
\* dicts with and without a key mapped to null, in both orders of their keys
\* and nested.
SeedNull == Dict(<< <<"seed", None>> >>)
SeedGiven == Dict(<< <<"seed", Str("123")>> >>)
NameAndSeedNull == Dict(<< <<"name", Str("m1")>>, <<"seed", None>> >>)
NameOnly == Dict(<< <<"name", Str("m1")>> >>)
CanonicalValues ==
    {None, Num(1), Str(""), Str("null"), List(<<>>), List(<<None>>),
     EmptyDict, SeedNull, SeedGiven, NameOnly, NameAndSeedNull,
     ScoresAB, ScoresBA, MetadataAB, MetadataBA,
     List(<<ScoresAB>>), List(<<ScoresBA>>), List(<<SeedNull>>), List(<<EmptyDict>>)}
DerivedValues == {v \in CanonicalValues : IsDict(v)}

\* Transcripts without their derived data: no turns, as in the parity vector
\* of the tests, or one turn whose content needs normalizing.
Turn(content) ==
    Dict(<< <<"role", Str("user")>>, <<"ts_ms", Num(100)>>, <<"content", Str(content)>> >>)
Transcript(revision, turns) ==
    Dict(<< <<"session_id", Str("s1")>>, <<"created_ms", Num(100)>>,
            <<"model", Dict(<< <<"name", Str("m1")>> >> \o revision)>>,
            <<"turns", List(turns)>> >>)
Transcripts ==
    {Transcript(<<>>, <<>>), Transcript(<< <<"revision", Str("v1")>> >>, <<>>),
     Transcript(<<>>, <<Turn("Hello   world")>>)}
WithDerived(transcript, derived) == Dict(transcript[2] \o << <<"derived", derived>> >>)

CanonInit ==
    /\ private_key = "k1"
    /\ public_key = PublicOf("k1")
    /\ default_agent_id = None
    /\ calculate_scores = None
    /\ receipts = <<>>
    /\ edits = 0
    /\ last = Ready
    /\ obj = NoObject
    /\ calls = <<>>

\* canonicalize_json of crypto.py on two values.
CanonicalizeJson ==
    /\ last = Ready
    /\ \E a \in CanonicalValues, b \in CanonicalValues :
          last' = [op |-> "canonicalize_json", a |-> a, b |-> b,
                   ca |-> canonicalize_json(a), cb |-> canonicalize_json(b)]
    /\ UNCHANGED <<obj, calls, private_key, public_key, default_agent_id, calculate_scores,
                   receipts, edits>>

\* The canonical form of canonicalize.py, sort_keys then json.dumps, on two
\* values.
SortKeysAndDump ==
    /\ last = Ready
    /\ \E a \in CanonicalValues, b \in CanonicalValues :
          last' = [op |-> "sort_keys", a |-> a, b |-> b,
                   ca |-> json_dumps(sort_keys(a)), cb |-> json_dumps(sort_keys(b))]
    /\ UNCHANGED <<obj, calls, private_key, public_key, default_agent_id, calculate_scores,
                   receipts, edits>>

\* canonical_transcript on one transcript with two values of its derived
\* data.
CanonicalTranscript ==
    /\ last = Ready
    /\ \E transcript \in Transcripts, a \in DerivedValues, b \in DerivedValues :
          last' = [op |-> "canonical_transcript", transcript |-> transcript,
                   a |-> a, b |-> b,
                   ca |-> canonical_transcript(WithDerived(transcript, a)),
                   cb |-> canonical_transcript(WithDerived(transcript, b))]
    /\ UNCHANGED <<obj, calls, private_key, public_key, default_agent_id, calculate_scores,
                   receipts, edits>>

CanonNext ==
    \/ CanonicalizeJson
    \/ SortKeysAndDump
    \/ CanonicalTranscript
    \/ Continue

CanonSpec == CanonInit /\ [][CanonNext]_vars

\* ------------------------------------------------------------------ claims

\* The list of the verify_chain call that has just returned.
Chain == [n \in 1..Len(last.list) |-> receipts[last.list[n]]]
ChainReturned == last.op = "verify_chain"

\* A held record is as the orchestrator returned it.
AsIssued(e) == e.rec = to_json(e.origin)

\* The list is r1..rn as this orchestrator returned them, r1 built on no
\* previous receipt and each next one on the one before it.
IssuedChain(c) ==
    /\ Len(c) >= 1
    /\ \A n \in 1..Len(c) : AsIssued(c[n])
    /\ c[1].previous = None
    /\ \A n \in 2..Len(c) : c[n].previous = c[n - 1].rec

\* The link from position n - 1 to position n of the list is broken.
BrokenLink(c, n) == c[n].rec.prev_receipt_hash # c[n - 1].rec.receipt_hash

\* Ed25519 itself: the signature of the record is one made with the seed
\* of key over the record's receipt_hash.
Authentic(rec, key) ==
    /\ Len(rec.signature) = 3
    /\ rec.signature[1] = "ed25519"
    /\ PublicOf(rec.signature[2]) = key
    /\ rec.signature[3] = rec.receipt_hash

Entries(result) == {result.errors[k] : k \in 1..Len(result.errors)}
IsChainBreak(e) == e[1] = "Chain break between receipt"
Breaks(result) == {k \in 1..Len(result.errors) : IsChainBreak(result.errors[k])}

\* C1: a list r1..rn of receipts one orchestrator produced, each built on the
\* one before it, has every prev_receipt_hash equal to the receipt_hash before
\* it, and verify_chain returns valid = true with no errors.
C1_IssuedChainIsValid ==
    (ChainReturned /\ IssuedChain(Chain)) =>
        /\ \A n \in 2..Len(Chain) :
              Chain[n].rec.prev_receipt_hash = Chain[n - 1].rec.receipt_hash
        /\ ~last.result.raised
        /\ last.result.value.valid
        /\ last.result.value.errors = <<>>

\* The same of an orchestrator whose public key belongs to its private key.
IssuedChainIsValidUnderOwnKey ==
    (ChainReturned /\ IssuedChain(Chain) /\ public_key = PublicOf(private_key)) =>
        /\ \A n \in 2..Len(Chain) :
              Chain[n].rec.prev_receipt_hash = Chain[n - 1].rec.receipt_hash
        /\ last.result = Ok([valid |-> TRUE, errors |-> <<>>])

\* C2: whenever the receipt at Python index i >= 1 of the list has a
\* prev_receipt_hash that is absent or differs from the receipt_hash at
\* index i - 1, verify_chain returns valid = false and an error naming the
\* break between i - 1 and i.
C2_BrokenLinkIsReported ==
    ChainReturned =>
        \A n \in 2..Len(Chain) :
            BrokenLink(Chain, n) =>
                /\ ~last.result.raised
                /\ ~last.result.value.valid
                /\ ChainBreak(n - 2, n - 1) \in Entries(last.result.value)

\* C3: every receipt of the list, the one at index 0 included, is
\* signature-checked: an unsigned receipt or one whose signature does not
\* verify under the orchestrator's public key makes verify_chain return
\* valid = false with an invalid-signature error for its index.
C3_EverySignatureIsChecked ==
    ChainReturned =>
        \A n \in 1..Len(Chain) :
            ~Authentic(Chain[n].rec, public_key) =>
                /\ ~last.result.raised
                /\ ~last.result.value.valid
                /\ InvalidSignature(n - 1) \in Entries(last.result.value)

\* The list is [r2, r1, r3] of a chain r1, r2, r3 this orchestrator issued.
ReorderedChain(c) ==
    /\ Len(c) = 3
    /\ IssuedChain(<<c[2], c[1], c[3]>>)

IndexOf(e) == IF IsChainBreak(e) THEN e[4] ELSE e[2]
Ascending(errors) ==
    \A a, b \in 1..Len(errors) : a < b => IndexOf(errors[a]) <= IndexOf(errors[b])

\* C5: verify_chain collects all: one chain-break error for each adjacent
\* pair whose link is broken, errors in ascending index order, and
\* valid = true exactly when there is no error.
C5_AllBreaksAreCollected ==
    ChainReturned =>
        /\ ~last.result.raised
        /\ Cardinality(Breaks(last.result.value))
              = Cardinality({n \in 2..Len(Chain) : BrokenLink(Chain, n)})
        /\ \A n \in 2..Len(Chain) :
              BrokenLink(Chain, n) =>
                  ChainBreak(n - 2, n - 1) \in Entries(last.result.value)
        /\ Ascending(last.result.value.errors)
        /\ last.result.value.valid <=> last.result.value.errors = <<>>

\* C6: verification never raises: verify, verify_receipt and verify_chain
\* return a result whatever the signature and the key are, malformed ones
\* included.
Verifications == {"verify", "verify_receipt", "verify_chain", "roundtrip", "verify_unsigned"}
C6_VerificationNeverRaises ==
    last.op \in Verifications => ~last.result.raised

\* The receipt a verify or verify_receipt call was about, and the key used.
Verified == receipts[last.index]
VerifyReturned == last.op \in {"verify", "verify_receipt"}
KeyUsed == IF last.op = "verify_receipt" THEN public_key ELSE last.key

\* The signature is one Ed25519 made, and the public key of its signer.
Signed(rec) == Len(rec.signature) = 3 /\ rec.signature[1] = "ed25519"
SignerOf(rec) == PublicOf(rec.signature[2])
SignedMessage(rec) == rec.signature[3]
HexKeys == PublicKeys \cup {BadLenKey}

\* C7: a receipt signed with one private key verifies false under every
\* public key that is not that key's, and its signature verifies false
\* against a receipt_hash other than the one that was signed.
C7_WrongKeyOrMessageIsRejected ==
    /\ (VerifyReturned /\ Signed(Verified.rec) /\ KeyUsed \in HexKeys) =>
          ((KeyUsed # SignerOf(Verified.rec)
                \/ Verified.rec.receipt_hash # SignedMessage(Verified.rec))
              => last.result = Ok(FALSE))
    /\ (last.op = "roundtrip" /\ last.key \in HexKeys) =>
          (last.key # PublicOf(last.seed) => last.result = Ok(FALSE))

\* A signed receipt whose stored receipt_hash is no longer the signed one was
\* verified under its signer's key.
C7_AlteredMessageVerified ==
    /\ last.op = "verify"
    /\ Signed(Verified.rec)
    /\ last.key = SignerOf(Verified.rec)
    /\ Verified.rec.receipt_hash # SignedMessage(Verified.rec)
    /\ Verified.rec.receipt_hash = to_json(Verified.origin).receipt_hash

\* A hashed field of the held record was changed and receipt_hash made to
\* match the changed fields, the signature being the one the orchestrator
\* made.
Forgery(e) ==
    /\ \E f \in HashedFields : e.rec[f] # to_json(e.origin)[f]
    /\ e.rec.receipt_hash = _compute_receipt_hash(e.rec)
    /\ e.rec.signature = e.origin.signature

\* C8: a receipt with a changed hashed field, a receipt_hash recomputed to
\* match and the original signature verifies false under the signer's public
\* key, through from_json and verify as through verify_receipt.
C8_RehashedForgeryIsRejected ==
    (VerifyReturned /\ Forgery(Verified) /\ KeyUsed = PublicOf(private_key)) =>
        last.result = Ok(FALSE)

C8_RehashedForgeryVerified ==
    /\ last.op = "verify_receipt"
    /\ Forgery(Verified)
    /\ public_key = PublicOf(private_key)

\* C9: a receipt that was never signed verifies false under every key, and so
\* does a receipt that from_json restored from a record whose signature is
\* empty.
C9_UnsignedVerifiesFalse ==
    /\ last.op = "verify_unsigned" => last.result = Ok(FALSE)
    /\ (VerifyReturned /\ Verified.rec.signature = Unsigned) => last.result = Ok(FALSE)

C9_UnsignedVerified ==
    /\ last.op = "verify"
    /\ Verified.rec.signature = Unsigned
    /\ last.key = NonHexKey

\* C10: build, sign(priv), to_json, from_json, verify(pub) yields true for
\* every keypair, and the restored receipt has the receipt_hash and the
\* signature of the original; the same holds of a receipt as the
\* orchestrator returned it, verified under the key of its signer.
C10_RoundTripVerifies ==
    /\ last.op = "roundtrip" =>
          /\ last.restored.receipt_hash = last.original.receipt_hash
          /\ last.restored.signature = last.original.signature
          /\ last.key = PublicOf(last.seed) => last.result = Ok(TRUE)
    /\ (last.op = "verify" /\ AsIssued(Verified) /\ last.key = PublicOf(private_key)) =>
          last.result = Ok(TRUE)

C10_RoundTripDone ==
    /\ last.op = "roundtrip"
    /\ last.key = PublicOf(last.seed)
    /\ last.original.timestamp = Str("t1")
    /\ last.original.scores # EmptyDict
    /\ last.original.prompt_content # None

\* C11: once a TrustReceipt is constructed, no sequence of sign (with any
\* key, again with the same or with another), verify, verify_chain and
\* to_json calls changes receipt_hash; a sign call changes nothing but the
\* signature, and two sign calls with the same key give the same signature.
C11_ReceiptHashIsImmutable ==
    obj.made =>
        /\ obj.receipt.receipt_hash = obj.constructed.receipt_hash
        /\ [obj.receipt EXCEPT !.signature = Unsigned] = obj.constructed
        /\ \A n \in 1..Len(obj.signs) :
              /\ [obj.signs[n].before EXCEPT !.signature = Unsigned] = obj.constructed
              /\ ~obj.signs[n].raised =>
                    obj.signs[n].signature =
                        sign(obj.constructed.receipt_hash, obj.signs[n].key).value
        /\ \A m, n \in 1..Len(obj.signs) :
              (obj.signs[m].key = obj.signs[n].key /\ ~obj.signs[m].raised) =>
                  obj.signs[m].signature = obj.signs[n].signature

\* The object was signed, signed again with the same key, and verified.
C11_SignedTwiceAndVerified ==
    /\ obj.made
    /\ Len(obj.signs) = 2
    /\ obj.signs[1].key = obj.signs[2].key
    /\ ~obj.signs[2].raised
    /\ last.op = "object_verify"
    /\ last.result = Ok(TRUE)

\* A serialized form the caller has in hand, with the prompt and the
\* (extracted) response it was built from and its include_content.
Serialized == last.op \in {"object_to_json", "create_receipt_once", "wrap_once"}
SerializedReturned ==
    /\ Serialized
    /\ last.op # "object_to_json" => ~last.raised
GivenPrompt == IF last.op = "object_to_json" THEN obj.data.prompt ELSE last.prompt
GivenResponse == IF last.op = "object_to_json" THEN obj.data.response ELSE last.response
GivenContentFlag ==
    IF last.op = "object_to_json" THEN obj.data.include_content ELSE last.include_content

\* C12: the to_dict of a receipt built with include_content = false, by the
\* constructor, create_receipt or wrap, has neither a prompt_content nor a
\* response_content key, whatever the prompt and the response are.
C12_NoContentKeysWhenOff ==
    (SerializedReturned /\ ~GivenContentFlag) =>
        /\ ~Has(last.dict, "prompt_content")
        /\ ~Has(last.dict, "response_content")

C12_ContentOffSerialized ==
    /\ last.op = "wrap_once"
    /\ ~last.raised
    /\ ~last.include_content
    /\ last.prompt = Str("q1")
    /\ last.response = Str("hi")

\* C13: the to_dict of a receipt built with include_content = true has both
\* content keys, and their values are the prompt and the (extracted)
\* response as given, null and empty values included.
C13_ContentKeysWhenOn ==
    (SerializedReturned /\ GivenContentFlag) =>
        /\ Has(last.dict, "prompt_content")
        /\ Has(last.dict, "response_content")
        /\ Get(last.dict, "prompt_content") = GivenPrompt
        /\ Get(last.dict, "response_content") = GivenResponse

\* C14: building a receipt with an empty session_id fails and produces no
\* receipt, through the constructor, create_receipt and wrap alike.
C14_EmptySessionIdIsRejected ==
    /\ obj.made => obj.data.session_id # Str("")
    /\ (last.op \in {"create_receipt_once", "wrap_once"} /\ ~last.raised) =>
          last.session_id # Str("")

\* The places of an event in the record of a call, and the work of wrap.
Places(call, event) == {k \in 1..Len(call.events) : call.events[k] = event}
WrapWork == {"extract", "calculate_scores", "construct", "sign", "to_json"}
Extracted(call) ==
    IF call.options.extract_response # None
    THEN ApplyExtract(call.options.extract_response, call.outcome.value).value
    ELSE _extract_response_content(call.outcome.value).value

\* C15: in every wrap call fn() is executed exactly once; extraction, score
\* calculation, construction and signing come after fn() has returned; the
\* receipt's response_hash, and its response_content when kept, are those
\* of the extracted response; and the response returned with the receipt is
\* the raw result of fn().
C15_WrapRunsOperationOnceThenBuilds ==
    \A i \in 1..Len(calls) :
        /\ calls[i].runs = 1
        /\ Places(calls[i], "fn") = {1}
        /\ \A k \in 1..Len(calls[i].events) :
              calls[i].events[k] \in WrapWork =>
                  \E j \in 1..(k - 1) : calls[i].events[j] = "fn returned"
        /\ calls[i].pc = "returned" =>
              /\ calls[i].result.value.receipt.response_hash
                    = _hash_content(Extracted(calls[i]))
              /\ calls[i].options.include_content =>
                    calls[i].result.value.receipt.response_content = Extracted(calls[i])
              /\ calls[i].result.value.response = calls[i].outcome.value

\* A call returned a receipt for a result the extraction changed.
C15_ExtractedResponseHashed ==
    \E i \in 1..Len(calls) :
        /\ calls[i].pc = "returned"
        /\ calls[i].outcome.value = OpenAIShape
        /\ calls[i].options.include_content
        /\ calls[i].result.value.receipt.response_content = Str("hi")

\* C16: when fn() raises or the call is cancelled, wrap raises the same
\* failure, nothing of a receipt is constructed, signed or returned for the
\* call, and fn() is not called again.
C16_FailedOperationYieldsNoReceipt ==
    \A i \in 1..Len(calls) :
        (calls[i].pc # "awaiting" /\ calls[i].outcome.raised) =>
            /\ calls[i].pc = "raised"
            /\ calls[i].result = Raise(calls[i].outcome.value)
            /\ \A k \in 1..Len(calls[i].events) : calls[i].events[k] \notin WrapWork
            /\ calls[i].runs = 1
            /\ Places(calls[i], "fn") = {1}

C16_OperationFailed ==
    \E i, j \in 1..Len(calls) :
        /\ calls[i].pc = "raised"
        /\ calls[j].pc = "raised"
        /\ calls[i].outcome = Raise(OperationError)
        /\ calls[j].outcome = Raise(CancelledError)

\* C17: when the score function raises in a wrap call, the call raises and
\* returns no receipt; every receipt wrap returns has a mapping as scores.
C17_FailedScoringYieldsNoReceipt ==
    \A i \in 1..Len(calls) :
        /\ (calculate_scores = FailingScoreFunction
                /\ Places(calls[i], "calculate_scores") # {}) =>
              /\ calls[i].pc = "raised"
              /\ calls[i].result = Raise(None)
        /\ calls[i].pc = "returned" => IsDict(calls[i].result.value.receipt.scores)

C17_ScoringFailed ==
    \E i \in 1..Len(calls) :
        /\ calculate_scores = FailingScoreFunction
        /\ Places(calls[i], "calculate_scores") # {}
        /\ calls[i].pc = "raised"

\* C18: every receipt wrap or create_receipt of an orchestrator returned is
\* signed, and verify_receipt of that orchestrator returns true for it,
\* however the orchestrator was constructed.
C18_OwnReceiptsVerify ==
    /\ \A i \in 1..Len(receipts) :
          AsIssued(receipts[i]) => receipts[i].rec.signature # Unsigned
    /\ (last.op = "verify_receipt" /\ AsIssued(Verified)) => last.result = Ok(TRUE)

\* Two values are logically equal: dicts with the same keys and logically
\* equal values whatever the order of insertion, lists with logically equal
\* items in the same order, anything else when identical.
RECURSIVE LogicallyEqual(_, _)
LogicallyEqual(a, b) ==
    IF IsDict(a) /\ IsDict(b)
    THEN /\ {a[2][k][1] : k \in 1..Len(a[2])} = {b[2][k][1] : k \in 1..Len(b[2])}
         /\ \A k \in 1..Len(a[2]) : LogicallyEqual(a[2][k][2], Get(b, a[2][k][1]))
    ELSE IF IsList(a) /\ IsList(b)
    THEN /\ Len(a[2]) = Len(b[2])
         /\ \A k \in 1..Len(a[2]) : LogicallyEqual(a[2][k], b[2][k])
    ELSE a = b

\* The second receipt is built from the content of the first, at the same
\* timestamp.
SameContent ==
    /\ last.op = "build_again"
    /\ LogicallyEqual(last.data.scores, obj.data.scores)
    /\ LogicallyEqual(last.data.metadata, obj.data.metadata)
    /\ last.receipt.timestamp = obj.constructed.timestamp

\* C19: two receipts built at the same timestamp from inputs that differ in
\* nothing but the insertion order of the keys of scores and of metadata, at
\* any depth, have the same receipt_hash, prompt_hash and response_hash.
C19_KeyOrderDoesNotChangeHashes ==
    SameContent =>
        /\ last.receipt.receipt_hash = obj.constructed.receipt_hash
        /\ last.receipt.prompt_hash = obj.constructed.prompt_hash
        /\ last.receipt.response_hash = obj.constructed.response_hash

\* Scores and metadata were both given in another order, metadata also in
\* another order one level down.
C19_ReorderedInputsBuilt ==
    /\ SameContent
    /\ obj.data.scores = ScoresAB
    /\ last.data.scores = ScoresBA
    /\ obj.data.metadata = MetadataAB
    /\ last.data.metadata = MetadataBA

Canonicalized == last.op \in {"canonicalize_json", "sort_keys", "canonical_transcript"}

\* C20: two values canonicalize to the same text exactly when they are
\* logically equal; a dict with a key mapped to null and the same dict
\* without that key canonicalize to different texts.
C20_CanonicalizationIsInjective ==
    Canonicalized => ((last.ca = last.cb) <=> LogicallyEqual(last.a, last.b))

\* C21: no call of wrap, create_receipt, verify_receipt or verify_chain,
\* whether it returns or raises, changes the private_key or the public_key of
\* the instance, and every receipt the instance has returned is signed with
\* that one private key.
C21_KeypairIsReadOnly ==
    /\ [][private_key' = private_key /\ public_key' = public_key]_vars
    /\ [](\A i \in 1..Len(receipts) :
            AsIssued(receipts[i]) =>
                /\ Signed(receipts[i].rec)
                /\ receipts[i].rec.signature[2] = private_key)

\* Receipts were issued by create_receipt and by wrap, and a wrap call has
\* just failed.
C21_IssuedAndFailed ==
    /\ Len(receipts) = MaxReceipts
    /\ \A i \in 1..Len(receipts) : AsIssued(receipts[i])
    /\ last.op = "wrap"
    /\ last.raised

\* Call i has returned a response with a receipt of its own: the result of
\* its own fn(), a receipt over its own options and its own extracted
\* response, signed by the instance over the hash of that receipt.
OwnReceipt(call) ==
    LET receipt == call.result.value.receipt
    IN  /\ call.result.value.response = call.outcome.value
        /\ receipt.session_id = call.options.session_id
        /\ receipt.prompt_hash = _hash_content(call.options.input)
        /\ receipt.response_hash = _hash_content(Extracted(call))
        /\ receipt.scores \in {call.options.scores,
                                CalculatedScores(call.options.input, Extracted(call))}
        /\ ~Falsy(call.options.scores) => receipt.scores = call.options.scores
        /\ receipt.prompt_content =
              (IF call.options.include_content THEN call.options.input ELSE None)
        /\ receipt.response_content =
              (IF call.options.include_content THEN Extracted(call) ELSE None)
        /\ receipt.receipt_hash = _compute_receipt_hash(receipt)
        /\ verify(receipt.signature, receipt.receipt_hash, public_key) = Ok(TRUE)

\* C22: however wrap calls on one orchestrator interleave at their awaited
\* operation, each call that returns has its own operation's result and a
\* receipt of its own options and extracted response, validly signed; what a
\* finished call returned is never changed by another call, and neither are
\* the keys.
C22_InterleavedWrapsAreIndependent ==
    /\ [](\A i \in 1..Len(calls) : calls[i].pc = "returned" => OwnReceipt(calls[i]))
    /\ [][/\ \A i \in 1..Len(calls) : calls[i].pc # "awaiting" => calls'[i] = calls[i]
          /\ private_key' = private_key
          /\ public_key' = public_key]_vars

\* The second call, begun with other options while the first was waiting,
\* has returned before the first, which returns after it with another
\* response.
C22_ReturnedOutOfOrder ==
    /\ Len(calls) = 2
    /\ calls[1].pc = "returned"
    /\ calls[2].pc = "returned"
    /\ calls[1].options # calls[2].options
    /\ calls[1].options.session_id # calls[2].options.session_id
    /\ calls[1].outcome # calls[2].outcome
    /\ calls[1].place = 2
    /\ calls[2].place = 1

\* C23: the link check of a receipt against the one before it fails exactly
\* when its prev_receipt_hash differs from that receipt's receipt_hash, and a
\* receipt at index 0 of a list given to verify_chain whose prev_receipt_hash
\* is not null, no predecessor being supplied there, is reported as a break.
C23_UnmatchedPredecessorIsABreak ==
    (ChainReturned /\ ~last.result.raised) =>
        /\ \A n \in 2..Len(Chain) :
              ChainBreak(n - 2, n - 1) \in Entries(last.result.value) <=> BrokenLink(Chain, n)
        /\ (Len(Chain) >= 1 /\ Chain[1].rec.prev_receipt_hash # None) =>
              /\ ~last.result.value.valid
              /\ \E e \in Entries(last.result.value) : IsChainBreak(e) /\ e[4] = 0

\* The first element of the list under key of a result, when the result is a
\* mapping with a non-empty list there.
HasFirst(response, key) ==
    /\ IsDict(response)
    /\ IsList(Get(response, key))
    /\ Len(Get(response, key)[2]) > 0
First(response, key) == Get(response, key)[2][1]

\* The result matches the shape with choices, or the shape with content blocks.
ChoicesShape(response) ==
    /\ HasFirst(response, "choices")
    /\ IsDict(First(response, "choices"))
    /\ IsDict(Get(First(response, "choices"), "message"))
    /\ Has(Get(First(response, "choices"), "message"), "content")
ContentShape(response) ==
    /\ HasFirst(response, "content")
    /\ IsDict(First(response, "content"))
    /\ Has(First(response, "content"), "text")

\* C24: a wrap call without an extraction function never fails on the result
\* of the operation; the receipt is over the content of the first choice's
\* message, else over the text of the first content block, else over the raw
\* result.
C24_DefaultExtractionIsTotal ==
    (last.op = "wrap_once" /\ last.options.extract_response = None) =>
        /\ ~last.raised
        /\ last.receipt.response_hash = _hash_content(
              IF ChoicesShape(last.given)
              THEN Get(Get(First(last.given, "choices"), "message"), "content")
              ELSE IF ContentShape(last.given)
              THEN Get(First(last.given, "content"), "text")
              ELSE last.given)

\* C25: a wrap call given scores in its options, an empty mapping included,
\* returns a receipt with exactly those scores and does not invoke the
\* injected score function; the function is invoked, once, only when no
\* scores were given.
C25_ExplicitScoresAreUsed ==
    \A i \in 1..Len(calls) :
        (calls[i].pc # "awaiting" /\ ~calls[i].outcome.raised) =>
            /\ calls[i].scores_arg # None =>
                  /\ Places(calls[i], "calculate_scores") = {}
                  /\ calls[i].pc = "returned" =>
                        calls[i].result.value.receipt.scores = calls[i].scores_arg
            /\ Cardinality(Places(calls[i], "calculate_scores")) <= 1
            /\ (calls[i].scores_arg = None /\ calls[i].pc = "returned"
                  /\ calculate_scores # None) =>
                  /\ Cardinality(Places(calls[i], "calculate_scores")) = 1
                  /\ calls[i].result.value.receipt.scores =
                        CalculatedScores(calls[i].options.input, Extracted(calls[i]))

\* The object as sign call n left it.
AfterSign(n) == IF n < Len(obj.signs) THEN obj.signs[n + 1].before ELSE obj.receipt
is_signed(r) == Len(r.signature) > 0

\* C26: a sign call with a key of the wrong length or not hex raises and
\* leaves the receipt as it was, receipt_hash, signature and is_signed
\* included; the receipt is at every moment either unsigned or signed over
\* its receipt_hash.
C26_FailedSignChangesNothing ==
    obj.made =>
        /\ \A n \in 1..Len(obj.signs) :
              /\ obj.signs[n].raised <=> obj.signs[n].key \in {BadLenKey, NonHexKey}
              /\ obj.signs[n].raised =>
                    /\ AfterSign(n) = obj.signs[n].before
                    /\ AfterSign(n).receipt_hash = obj.signs[n].before.receipt_hash
                    /\ AfterSign(n).signature = obj.signs[n].before.signature
                    /\ is_signed(AfterSign(n)) = is_signed(obj.signs[n].before)
        /\ \/ obj.receipt.signature = Unsigned
           \/ /\ Signed(obj.receipt)
              /\ SignedMessage(obj.receipt) = obj.receipt.receipt_hash

\* A signed receipt was signed again with a malformed key.
C26_SignFailedAfterSigning ==
    /\ obj.made
    /\ Len(obj.signs) = 2
    /\ ~obj.signs[1].raised
    /\ obj.signs[2].raised
    /\ obj.signs[2].key = BadLenKey
    /\ is_signed(obj.receipt)

\* The stored receipts that agree with rec on receipt_hash and signature:
\* held ones, and held ones as they were issued.
Stored == Held \cup {to_json(receipts[j].origin) : j \in 1..Len(receipts)}
AgreeingWith(rec) ==
    {other \in Stored : /\ other.receipt_hash = rec.receipt_hash
                        /\ other.signature = rec.signature}

\* C27: verify_receipt gives the same result for any two stored receipts
\* that agree on receipt_hash and signature, whatever their other fields.
C27_OnlyHashAndSignatureCount ==
    last.op = "verify_receipt" =>
        \A other \in AgreeingWith(Verified.rec), now \in LaterTimestamps,
           content \in {None, Str("forged")} :
            /\ verify_receipt(public_key, other, now) = last.result
            /\ verify_receipt(public_key,
                    [other EXCEPT !.prompt_content = content,
                                  !.response_content = content], now) = last.result

\* A receipt one of whose hashed fields was altered, hash and signature
\* left as issued, has verified.
C27_AlteredFieldVerified ==
    /\ last.op = "verify_receipt"
    /\ last.result = Ok(TRUE)
    /\ \E other \in AgreeingWith(Verified.rec) : other # Verified.rec
    /\ Verified.rec.session_id # Verified.origin.session_id

\* C28: to_json(from_json(s)) is s in every field, for every stored receipt
\* s, one of another version and one with an empty signature included.
C28_WireRoundTripIsIdentity ==
    last.op = "reload" => last.result = receipts[last.index].rec

\* SHA-256 of the canonical form of the nine hashed fields of a receipt, as
\* they stand in it.
NineFieldHash(r) ==
    sha256(canonicalize_json(Dict(
        [k \in 1..9 |->
            LET f == <<"version", "timestamp", "session_id", "agent_id", "prompt_hash",
                       "response_hash", "scores", "prev_receipt_hash", "metadata">>[k]
            IN  <<f, r[f]>>])))

\* C29: every receipt wrap or create_receipt returned, and a TrustReceipt
\* after any sign, verify and to_json calls, has for receipt_hash the hash of
\* its nine hashed fields as they stand; the hash is the same with and
\* without include_content and with any signature.
C29_HashIsOfTheNineFields ==
    /\ (last.op \in {"create_receipt_once", "wrap_once"} /\ ~last.raised) =>
          last.receipt.receipt_hash = NineFieldHash(last.receipt)
    /\ last.op = "object_to_json" =>
          last.result.value.receipt_hash = NineFieldHash(last.result.value)
    /\ obj.made =>
          /\ obj.receipt.receipt_hash = NineFieldHash(obj.receipt)
          /\ obj.receipt.receipt_hash =
                TrustReceipt([obj.data EXCEPT !.include_content = ~@],
                             obj.receipt.timestamp).receipt_hash

\* A receipt that keeps its content was signed, signed again with another
\* key, and exported.
C29_SignedWithContentAndExported ==
    /\ obj.made
    /\ obj.data.include_content
    /\ obj.receipt.prompt_content # None
    /\ Len(obj.signs) = 2
    /\ ~obj.signs[1].raised
    /\ ~obj.signs[2].raised
    /\ obj.signs[1].key # obj.signs[2].key
    /\ last.op = "object_to_json"

\* C30: on an orchestrator whose construction succeeded, no wrap call whose
\* operation has run fails afterwards at signing, for its key material.
C30_KeysAreCheckedAtConstruction ==
    \A i \in 1..Len(calls) :
        (calls[i].pc # "awaiting" /\ ~calls[i].outcome.raised) =>
            (Places(calls[i], "sign") # {} => Places(calls[i], "to_json") # {})

====
